---- MODULE Spec2Model ----
(***************************************************************************)
(* Model of the two batch pipelines of the GNSSIR repository:              *)
(*   satref2rinex  (src/satref2rinex.py)   the remote fetch pipeline       *)
(*   rinex_convert (src/rinex_convert.py)  the local conversion pipeline   *)
(* The fetch pipeline is specified by Spec, the conversion pipeline by     *)
(* ConvSpec and the file-name templates of both by NameSpec.               *)
(***************************************************************************)
EXTENDS Integers, Sequences, FiniteSets, TLC

\* Days of the year the model ranges over: 1..MaxDoy.
MaxDoy == 2

Days == 1..MaxDoy

\* Content of one path of the output directory.
\*   "none": no file; "old": a file that was there before the run;
\*   "part": a file this run opened for writing and did not finish;
\*   "new":  a file this run wrote completely.
Content == {"none", "old", "part", "new"}

Present(c) == c # "none"

\* The three paths of one day: gz_file_path, rnx_file_path (the .crx file)
\* and rnx_converted_file_path (the final .rnx file).
DayFiles == [gz : Content, crx : Content, rnx : Content]

----------------------------------------------------------------------------
(* Strings are sequences of one-character strings; the file-name templates  *)
(* of both programs are computed on them as Python computes them.          *)

UpperLetters == <<"A", "B", "C", "D", "E", "F", "G", "H", "I", "J", "K", "L", "M", "N", "O", "P", "Q", "R", "S", "T", "U", "V", "W", "X", "Y", "Z">>

LowerLetters == <<"a", "b", "c", "d", "e", "f", "g", "h", "i", "j", "k", "l", "m", "n", "o", "p", "q", "r", "s", "t", "u", "v", "w", "x", "y", "z">>

DecimalDigits == <<"0", "1", "2", "3", "4", "5", "6", "7", "8", "9">>

\* str.lower()
Lower(s) ==
    [i \in 1..Len(s) |->
        IF \E k \in 1..Len(UpperLetters) : UpperLetters[k] = s[i]
        THEN LowerLetters[CHOOSE k \in 1..Len(UpperLetters) : UpperLetters[k] = s[i]]
        ELSE s[i]]

\* str.upper()
Upper(s) ==
    [i \in 1..Len(s) |->
        IF \E k \in 1..Len(LowerLetters) : LowerLetters[k] = s[i]
        THEN UpperLetters[CHOOSE k \in 1..Len(LowerLetters) : LowerLetters[k] = s[i]]
        ELSE s[i]]

\* str(n), and n in an f-string, for n >= 0: the decimal digits, no padding.
RECURSIVE IntToStr(_)
IntToStr(n) ==
    IF n < 10
    THEN <<DecimalDigits[n + 1]>>
    ELSE IntToStr(n \div 10) \o <<DecimalDigits[(n % 10) + 1]>>

\* s left-padded with "0" to the width w; longer strings are not cut.
RECURSIVE ZeroPad(_, _)
ZeroPad(s, w) == IF Len(s) >= w THEN s ELSE ZeroPad(<<"0">> \o s, w)

\* Whether c is a decimal digit.
IsDigit(c) == \E k \in 1..Len(DecimalDigits) : DecimalDigits[k] = c

\* The value of a decimal digit.
DigitValue(c) == (CHOOSE k \in 1..Len(DecimalDigits) : DecimalDigits[k] = c) - 1

\* The number a non-empty string of decimal digits denotes.
RECURSIVE DigitsToInt(_)
DigitsToInt(s) ==
    IF Len(s) = 1
    THEN DigitValue(s[1])
    ELSE 10 * DigitsToInt(SubSeq(s, 1, Len(s) - 1)) + DigitValue(s[Len(s)])

\* Faulty variant of Format03: the width is 2.
Format03_Width2(n) == ZeroPad(IntToStr(n), 2)

\* f"{doy:03}" and f"{doy:03d}", for doy >= 0
Format03(n) == ZeroPad(IntToStr(n), 3)

\* Whether old occurs in s at position i.
OccursAt(s, old, i) ==
    /\ i + Len(old) - 1 <= Len(s)
    /\ \A k \in 1..Len(old) : s[i + k - 1] = old[k]

\* str.replace(old, new) from position i on: every occurrence, left to right.
RECURSIVE ReplaceFrom(_, _, _, _)
ReplaceFrom(s, old, new, i) ==
    IF i > Len(s) THEN <<>>
    ELSE IF OccursAt(s, old, i)
         THEN new \o ReplaceFrom(s, old, new, i + Len(old))
         ELSE <<s[i]>> \o ReplaceFrom(s, old, new, i + 1)

Replace(s, old, new) == ReplaceFrom(s, old, new, 1)

\* str.rfind("."): the last position of a dot, 0 when there is none.
LastDot(s) ==
    IF \E i \in 1..Len(s) : s[i] = "."
    THEN CHOOSE i \in 1..Len(s) : s[i] = "." /\ \A j \in (i + 1)..Len(s) : s[j] # "."
    ELSE 0

\* PurePath.with_suffix(suffix) on a file name: the last suffix (from the last
\* dot, when that dot is neither the first nor the last character) is replaced.
WithSuffix(name, suffix) ==
    LET i == LastDot(name)
    IN IF 1 < i /\ i < Len(name)
       THEN SubSeq(name, 1, i - 1) \o suffix
       ELSE name \o suffix

StemA == <<"0", "0", "H", "K", "G", "_", "R", "_">>

StemB == <<"0", "0", "0", "0", "_", "0", "1", "D", "_", "3", "0", "S", "_", "M", "O">>

ExtCrxGz == <<".", "c", "r", "x", ".", "g", "z">>

ExtGz == <<".", "g", "z">>

ExtRnx == <<".", "r", "n", "x">>

UrlBase == <<"h", "t", "t", "p", "s", ":", "/", "/", "r", "i", "n", "e", "x", ".", "g", "e", "o", "d", "e", "t", "i", "c", ".", "g", "o", "v", ".", "h", "k", "/", "r", "i", "n", "e", "x", "3", "/">>

Url30s == <<"/", "3", "0", "s", "/">>

\* Faulty variant of gz_file_name: the day is missing from the template.
gz_file_name_NoDoy(station_id, year, d) ==
    Upper(station_id) \o StemA \o IntToStr(year) \o StemB \o ExtCrxGz

\* satref2rinex: gz_file_name
gz_file_name(station_id, year, d) ==
    Upper(station_id) \o StemA \o IntToStr(year) \o Format03(d) \o StemB \o ExtCrxGz

\* satref2rinex: rnx_file_name = gz_file_name.replace('.gz', '')
rnx_file_name(station_id, year, d) ==
    Replace(gz_file_name(station_id, year, d), ExtGz, <<>>)

\* satref2rinex: rnx_converted_file_path = rnx_file_path.with_suffix('.rnx')
rnx_converted_file_name(station_id, year, d) ==
    WithSuffix(rnx_file_name(station_id, year, d), ExtRnx)

\* satref2rinex: url = base_url.format(...)
url(station_id, year, d) ==
    UrlBase \o IntToStr(year) \o <<"/">> \o Format03(d) \o <<"/">> \o Lower(station_id)
        \o Url30s \o Upper(station_id) \o StemA \o IntToStr(year) \o Format03(d)
        \o StemB \o ExtCrxGz

\* rinex_convert: the file name of input_file
input_file(station_name, year, d) ==
    station_name \o StemA \o IntToStr(year) \o Format03(d) \o StemB \o ExtRnx

\* rinex_convert: year_short = str(year % 100)
year_short(year) == IntToStr(year % 100)

\* rinex_convert: the file name of output_file
output_file(station_name, year, d) ==
    Lower(station_name) \o Format03(d) \o <<"0", ".">> \o year_short(year) \o <<"o">>

VARIABLES
    pc,         \* position of satref2rinex in its code
    doy,        \* loop variable of satref2rinex
    doy_start,  \* argument
    doy_end,    \* argument
    dirExists,  \* whether output_dir exists
    fs,         \* files of output_dir: day -> DayFiles
    fs0,        \* fs when satref2rinex was called
    log,        \* history of the run, per day
    \* rinex_convert
    conv_pc,        \* position of rinex_convert in its code
    conv_doy,       \* loop variable
    conv_doy_start, \* argument doy_start
    conv_doy_end,   \* argument doy_end
    station_name,   \* argument
    conv_year,      \* argument year
    gfzrnx_exists,  \* whether a file exists at the path gfzrnx_exe
    output_folder,  \* argument: "None" or "given"
    out_dir_exists, \* whether the directory output_folder names exists
    input_folder,   \* names of the files in input_folder
    out_files,      \* names of the files the tool wrote
    conv_log,       \* history of the run
    \* the file names of both programs for one station, year and day
    n_pc,
    n_station,
    n_year,
    n_doy,
    n_names,
    \* the command line of satref2rinex.py
    cli         \* sys.argv, the exit status, and what __main__ did

fvars == <<pc, doy, doy_start, doy_end, dirExists, fs, fs0, log>>

cvars == <<conv_pc, conv_doy, conv_doy_start, conv_doy_end, station_name, conv_year,
           gfzrnx_exists, output_folder, out_dir_exists, input_folder, out_files,
           conv_log>>

nvars == <<n_pc, n_station, n_year, n_doy, n_names>>

mvars == <<cli>>

vars == <<fvars, cvars, nvars, mvars>>

\* What the run did on one day, and what it saw.
NoLog ==
    [ began    |-> 0,        \* times the day's iteration was entered
      status   |-> "PENDING",
      failed   |-> "none",   \* stage that failed: download, gunzip, codec
      net      |-> 0,        \* requests.get calls
      gunzip   |-> 0,        \* gzip.open calls
      codec    |-> 0,        \* hatanaka.decompress_on_disk calls
      gate     |-> 0,        \* evaluations of the finally block
      atStart  |-> [gz |-> "none", crx |-> "none", rnx |-> "none"],
      atGate   |-> [gz |-> "none", crx |-> "none", rnx |-> "none"],
      delTried |-> {},       \* os.remove calls made at the gate
      delFail  |-> {},       \* os.remove calls that raised OSError
      pending  |-> "none",   \* exception no except clause caught
      order    |-> <<>> ]    \* stages in the order they ran

\* What a run of rinex_convert did.
NoConvLog ==
    [ exeChecks |-> 0,                    \* os.path.exists(gfzrnx_exe) calls
      mkdirs    |-> 0,                    \* Path(output_folder).mkdir calls
      dirAtStart |-> FALSE,               \* out_dir_exists when the run began
      examined  |-> [d \in Days |-> 0],   \* os.path.exists(input_file) calls
      tool      |-> [d \in Days |-> 0],   \* subprocess.run calls
      result    |-> [d \in Days |-> "PENDING"],
      commands  |-> <<>>,                 \* the commands run, in order
      error     |-> "none" ]              \* the error rinex_convert raised

\* The command line before the program was started from it.
NoCli == [argv |-> <<>>, exit |-> "none", called |-> FALSE, dirAtStart |-> FALSE]

NoNames == [gz |-> <<>>, crx |-> <<>>, rnx |-> <<>>, url |-> <<>>,
            doy_formatted |-> <<>>, input |-> <<>>, output |-> <<>>]

----------------------------------------------------------------------------
(* satref2rinex *)

Range == {d \in Days : doy_start <= d /\ d <= doy_end}

FetchInit ==
    /\ pc = "start"
    /\ doy_start \in Days
    /\ doy_end \in 0..MaxDoy
    /\ doy = 0
    /\ dirExists \in BOOLEAN
    /\ fs \in [Days -> [gz : {"none", "old"}, crx : {"none", "old"}, rnx : {"none", "old"}]]
    /\ (~dirExists => \A d \in Days : fs[d] = [gz |-> "none", crx |-> "none", rnx |-> "none"])
    /\ fs0 = fs
    /\ log = [d \in Days |-> NoLog]

\* Faulty variant of NextDay: a day that failed is tried a second time.
NextDay_Retry(d) ==
    IF log[d].status = "FAILED" /\ log[d].gate = 0
    THEN /\ doy' = d
         /\ pc' = "check"
    ELSE IF d < doy_end
         THEN /\ doy' = d + 1
              /\ pc' = "check"
         ELSE /\ doy' = d
              /\ pc' = "done"

\* for doy in range(doy_start, doy_end + 1): the next iteration, or the return.
NextDay(d) ==
    IF d < doy_end
    THEN /\ doy' = d + 1
         /\ pc' = "check"
    ELSE /\ doy' = d
         /\ pc' = "done"

\* output_dir.mkdir(parents=True, exist_ok=True), then the first iteration.
Mkdir ==
    /\ pc = "start"
    /\ dirExists' = TRUE
    /\ IF doy_start <= doy_end
       THEN doy' = doy_start /\ pc' = "check"
       ELSE doy' = doy /\ pc' = "done"
    /\ UNCHANGED <<doy_start, doy_end, fs, fs0, log, cvars, nvars, mvars>>

\* The errors the except clauses of the day's try block catch: the first
\* catches RequestException, the second every other Exception.
\* Faulty variant of Caught: the second except clause is missing.
Caught_RequestOnly(e) == e = "RequestException"

Caught(e) == e \in {"RequestException", "OSError", "Exception"}

\* The exception a failed stage raises.
ExceptionOf(stage, o) ==
    CASE stage = "download" /\ o = "request_error" -> "RequestException"
      [] stage = "download" /\ o = "stream_error" -> "RequestException"
      [] stage = "download" /\ o = "open_error" -> "OSError"
      [] stage = "gunzip" -> "OSError"
      [] OTHER -> "Exception"

\* What is left to propagate after the except clauses.
Propagates(stage, o) ==
    IF Caught(ExceptionOf(stage, o)) THEN "none" ELSE ExceptionOf(stage, o)

\* Faulty variant of AlreadyExists: the skip check is missing.
AlreadyExists_Never(d) == FALSE

\* Faulty variant of AlreadyExists: rnx_file_path is tested instead.
AlreadyExists_Crx(d) == Present(fs[d].crx)

\* rnx_converted_file_path.exists() at the head of the try block
AlreadyExists(d) == Present(fs[d].rnx)

\* Faulty variant of SkipCheck: the existence check and its continue stand
\* before the try statement, so a skipped day does not reach the finally block.
SkipCheck_BeforeTry ==
    /\ pc = "check"
    /\ IF AlreadyExists(doy)
       THEN /\ NextDay(doy)
            /\ log' = [log EXCEPT ![doy].began = @ + 1,
                                  ![doy].atStart = fs[doy],
                                  ![doy].status = "SKIPPED",
                                  ![doy].order = Append(@, "check")]
       ELSE /\ pc' = "download"
            /\ doy' = doy
            /\ log' = [log EXCEPT ![doy].began = @ + 1,
                                  ![doy].atStart = fs[doy],
                                  ![doy].order = Append(@, "check")]
    /\ UNCHANGED <<doy_start, doy_end, dirExists, fs, fs0, cvars, nvars, mvars>>

\* if rnx_converted_file_path.exists(): continue   (inside try: finally runs)
SkipCheck ==
    /\ pc = "check"
    /\ IF AlreadyExists(doy)
       THEN /\ pc' = "gate"
            /\ log' = [log EXCEPT ![doy].began = @ + 1,
                                  ![doy].atStart = fs[doy],
                                  ![doy].status = "SKIPPED",
                                  ![doy].order = Append(@, "check")]
       ELSE /\ pc' = "download"
            /\ log' = [log EXCEPT ![doy].began = @ + 1,
                                  ![doy].atStart = fs[doy],
                                  ![doy].order = Append(@, "check")]
    /\ UNCHANGED <<doy, doy_start, doy_end, dirExists, fs, fs0, cvars, nvars, mvars>>

\* Outcomes of requests.get / raise_for_status / open / iter_content / write:
\*   "ok"            the body was written to gz_file_path
\*   "request_error" requests.get or raise_for_status raised RequestException
\*   "open_error"    open(gz_file_path, 'wb') raised OSError
\*   "stream_error"  the file was opened, then iter_content or write raised
DownloadOutcomes == {"ok", "request_error", "open_error", "stream_error"}

Download ==
    /\ pc = "download"
    /\ \E o \in DownloadOutcomes :
        /\ fs' = [fs EXCEPT ![doy].gz =
                     CASE o = "ok" -> "new"
                       [] o = "stream_error" -> "part"
                       [] OTHER -> @]
        /\ IF o = "ok"
           THEN /\ pc' = "gunzip"
                /\ log' = [log EXCEPT ![doy].net = @ + 1,
                                      ![doy].status = "DOWNLOADED",
                                      ![doy].order = Append(@, "download")]
           ELSE /\ pc' = "gate"
                /\ log' = [log EXCEPT ![doy].net = @ + 1,
                                      ![doy].status = "FAILED",
                                      ![doy].failed = "download",
                                      ![doy].pending = Propagates("download", o),
                                      ![doy].order = Append(@, "download")]
    /\ UNCHANGED <<doy, doy_start, doy_end, dirExists, fs0, cvars, nvars, mvars>>

\* Outcomes of gzip.open / open(rnx_file_path, 'wb') / shutil.copyfileobj:
\*   "ok"          the .crx file was written
\*   "open_error"  gzip.open or open raised, nothing was written
\*   "copy_error"  the .crx file was opened, then copyfileobj raised
GunzipOutcomes == {"ok", "open_error", "copy_error"}

Gunzip ==
    /\ pc = "gunzip"
    /\ \E o \in GunzipOutcomes :
        /\ fs' = [fs EXCEPT ![doy].crx =
                     CASE o = "ok" -> "new"
                       [] o = "copy_error" -> "part"
                       [] OTHER -> @]
        /\ IF o = "ok"
           THEN /\ pc' = "codec"
                /\ log' = [log EXCEPT ![doy].gunzip = @ + 1,
                                      ![doy].status = "DECOMPRESSED",
                                      ![doy].order = Append(@, "gunzip")]
           ELSE /\ pc' = "gate"
                /\ log' = [log EXCEPT ![doy].gunzip = @ + 1,
                                      ![doy].status = "FAILED",
                                      ![doy].failed = "gunzip",
                                      ![doy].pending = Propagates("gunzip", o),
                                      ![doy].order = Append(@, "gunzip")]
    /\ UNCHANGED <<doy, doy_start, doy_end, dirExists, fs0, cvars, nvars, mvars>>

\* Outcomes of hatanaka.decompress_on_disk(str(rnx_file_path)):
\*   "ok"      returned, the sibling .rnx file was written, .crx left in place
\*   "no_file" returned without producing the .rnx file
\*   "raise"   raised, no .rnx file was produced
CodecOutcomes == {"ok", "no_file", "raise"}

\* The codec call and the check of its result that follows it.
Codec ==
    /\ pc = "codec"
    /\ \E o \in CodecOutcomes :
        /\ fs' = [fs EXCEPT ![doy].rnx = IF o = "ok" THEN "new" ELSE @]
        /\ IF o # "raise" /\ Present(fs'[doy].rnx)
           THEN log' = [log EXCEPT ![doy].codec = @ + 1,
                                   ![doy].status = "CONVERTED",
                                   ![doy].order = Append(@, "codec")]
           ELSE log' = [log EXCEPT ![doy].codec = @ + 1,
                                   ![doy].status = "FAILED",
                                   ![doy].failed = "codec",
                                   ![doy].pending =
                                       IF o = "raise" THEN Propagates("codec", o) ELSE "none",
                                   ![doy].order = Append(@, "codec")]
    /\ pc' = "gate"
    /\ UNCHANGED <<doy, doy_start, doy_end, dirExists, fs0, cvars, nvars, mvars>>

\* os.remove(path): raises OSError when the file is absent; on a file that is
\* present it removes it or raises OSError (permissions, a busy file).
RemoveOutcomes(c) == IF Present(c) THEN {"ok", "oserror"} ELSE {"oserror"}

\* Faulty variant of GateOpen: the files are removed unconditionally.
GateOpen_Always(d) == TRUE

\* Faulty variant of GateOpen: the .crx file counts as the final file too.
GateOpen_AnyOutput(d) == Present(fs[d].rnx) \/ Present(fs[d].crx)

\* if rnx_converted_file_path.exists(): in the finally block
GateOpen(d) == Present(fs[d].rnx)

\* The finally block: if the final file exists, one try block removes the
\* .crx.gz file and then the .crx file; an OSError ends the block. Then the
\* next iteration, unless an exception of the try block is left to propagate.
CleanupGate ==
    /\ pc = "gate"
    /\ IF GateOpen(doy)
       THEN \E g \in RemoveOutcomes(fs[doy].gz) :
              IF g = "oserror"
              THEN /\ fs' = fs
                   /\ log' = [log EXCEPT ![doy].gate = @ + 1,
                                         ![doy].atGate = fs[doy],
                                         ![doy].delTried = {"gz"},
                                         ![doy].delFail = {"gz"},
                                         ![doy].order = Append(@, "gate")]
              ELSE \E c \in RemoveOutcomes(fs[doy].crx) :
                     /\ fs' = [fs EXCEPT ![doy].gz = "none",
                                         ![doy].crx = IF c = "ok" THEN "none" ELSE @]
                     /\ log' = [log EXCEPT ![doy].gate = @ + 1,
                                           ![doy].atGate = fs[doy],
                                           ![doy].delTried = {"gz", "crx"},
                                           ![doy].delFail = IF c = "ok" THEN {} ELSE {"crx"},
                                           ![doy].status =
                                               IF c = "ok" /\ @ = "CONVERTED"
                                               THEN "CLEANED" ELSE @,
                                           ![doy].order = Append(@, "gate")]
       ELSE /\ fs' = fs
            /\ log' = [log EXCEPT ![doy].gate = @ + 1,
                                  ![doy].atGate = fs[doy],
                                  ![doy].order = Append(@, "gate")]
    /\ IF log[doy].pending = "none"
       THEN NextDay(doy)
       ELSE doy' = doy /\ pc' = "raised"
    /\ UNCHANGED <<doy_start, doy_end, dirExists, fs0, cvars, nvars, mvars>>

\* The files of a day as a later call finds them: what is there is old.
AsFound(f) ==
    [gz  |-> IF Present(f.gz) THEN "old" ELSE "none",
     crx |-> IF Present(f.crx) THEN "old" ELSE "none",
     rnx |-> IF Present(f.rnx) THEN "old" ELSE "none"]

\* satref2rinex has returned and is called again, over any range, on the
\* same output directory.
CallAgain ==
    /\ pc = "done"
    /\ pc' = "start"
    /\ doy' = 0
    /\ doy_start' \in Days
    /\ doy_end' \in 0..MaxDoy
    /\ fs' = [d \in Days |-> AsFound(fs[d])]
    /\ fs0' = fs'
    /\ log' = [d \in Days |-> NoLog]
    /\ UNCHANGED <<dirExists, cvars, nvars, mvars>>

\* The state of a program that is not running.
FetchIdle ==
    /\ pc = "idle"
    /\ doy = 0
    /\ doy_start = 1
    /\ doy_end = 0
    /\ dirExists = FALSE
    /\ fs = [d \in Days |-> [gz |-> "none", crx |-> "none", rnx |-> "none"]]
    /\ fs0 = fs
    /\ log = [d \in Days |-> NoLog]

ConvIdle ==
    /\ conv_pc = "idle"
    /\ conv_doy = 0
    /\ conv_doy_start = 1
    /\ conv_doy_end = 0
    /\ station_name = <<>>
    /\ conv_year = 0
    /\ gfzrnx_exists = FALSE
    /\ output_folder = "None"
    /\ out_dir_exists = FALSE
    /\ input_folder = {}
    /\ out_files = {}
    /\ conv_log = NoConvLog

NameIdle ==
    /\ n_pc = "idle"
    /\ n_station = <<>>
    /\ n_year = 0
    /\ n_doy = 0
    /\ n_names = NoNames

CliIdle == cli = NoCli

Init == FetchInit /\ ConvIdle /\ NameIdle /\ CliIdle

Next ==
    \/ Mkdir
    \/ SkipCheck
    \/ Download
    \/ Gunzip
    \/ Codec
    \/ CleanupGate
    \/ CallAgain

Spec == Init /\ [][Next]_vars

----------------------------------------------------------------------------
(* rinex_convert *)

\* Station identifiers in upper, lower and mixed case.
Stations == {<<"H", "K", "P", "C">>, <<"h", "k", "s", "t">>, <<"H", "k", "S", "t">>}

\* Years with a short year below and above 10.
Years == {1999, 2005, 2023}

\* The files input_folder may hold: for each day the file satref2rinex leaves
\* for the station, and the file named with the station as it was given.
CandidateInputs(st, y) ==
    {input_file(st, y, d) : d \in Days} \cup {rnx_converted_file_name(st, y, d) : d \in Days}

ConvInit ==
    /\ conv_pc = "start"
    /\ conv_doy = 0
    /\ conv_doy_start \in Days
    /\ conv_doy_end \in 0..MaxDoy
    /\ station_name \in Stations
    /\ conv_year \in Years
    /\ gfzrnx_exists \in BOOLEAN
    /\ output_folder \in {"None", "given"}
    /\ out_dir_exists \in BOOLEAN
    /\ (output_folder = "None" => out_dir_exists)
    /\ input_folder \in SUBSET CandidateInputs(station_name, conv_year)
    /\ out_files = {}
    /\ conv_log = [NoConvLog EXCEPT !.dirAtStart = out_dir_exists]

\* Faulty variant of ExeFound: the executable is not checked.
ExeFound_Unchecked == TRUE

\* os.path.exists(gfzrnx_exe)
ExeFound == gfzrnx_exists

\* if not os.path.exists(gfzrnx_exe): raise FileNotFoundError(...)
CheckExe ==
    /\ conv_pc = "start"
    /\ IF ExeFound
       THEN /\ conv_pc' = "outdir"
            /\ conv_log' = [conv_log EXCEPT !.exeChecks = @ + 1]
       ELSE /\ conv_pc' = "raised"
            /\ conv_log' = [conv_log EXCEPT !.exeChecks = @ + 1,
                                            !.error = "FileNotFoundError"]
    /\ UNCHANGED <<conv_doy, conv_doy_start, conv_doy_end, station_name, conv_year,
                   gfzrnx_exists, output_folder, out_dir_exists, input_folder, out_files,
                   fvars, nvars, mvars>>

\* for doy in range(doy_start, doy_end + 1): the next iteration, or the return.
ConvNextDay(d) ==
    IF d < conv_doy_end
    THEN /\ conv_doy' = d + 1
         /\ conv_pc' = "day"
    ELSE /\ conv_doy' = d
         /\ conv_pc' = "done"

\* output_folder = os.getcwd(), or Path(output_folder).mkdir(parents=True,
\* exist_ok=True); then the first iteration of the loop.
OutputFolder ==
    /\ conv_pc = "outdir"
    /\ IF output_folder = "None"
       THEN /\ out_dir_exists' = out_dir_exists
            /\ conv_log' = conv_log
       ELSE /\ out_dir_exists' = TRUE
            /\ conv_log' = [conv_log EXCEPT !.mkdirs = @ + 1]
    /\ IF conv_doy_start <= conv_doy_end
       THEN conv_doy' = conv_doy_start /\ conv_pc' = "day"
       ELSE conv_doy' = conv_doy /\ conv_pc' = "done"
    /\ UNCHANGED <<conv_doy_start, conv_doy_end, station_name, conv_year,
                   gfzrnx_exists, output_folder, input_folder, out_files,
                   fvars, nvars, mvars>>

\* Outcomes of subprocess.run(command, check=True):
\*   "ok"       the tool exited with status 0 and wrote output_file
\*   "nonzero"  the tool exited with another status: CalledProcessError
\*   "oserror"  the tool could not be started (the path is a directory, is
\*              not executable, was removed): OSError, raised by subprocess.run
ToolOutcomes == {"ok", "nonzero", "oserror"}

\* The exception subprocess.run raises.
ToolException(o) ==
    CASE o = "nonzero" -> "CalledProcessError"
      [] o = "oserror" -> "OSError"
      [] OTHER -> "none"

\* except subprocess.CalledProcessError: the only except clause of the loop.
ConvCaught(e) == e = "CalledProcessError"

\* Faulty variant of InputExists: the input file is not checked.
InputExists_Unchecked(d) == TRUE

\* os.path.exists(input_file)
InputExists(d) == input_file(station_name, conv_year, d) \in input_folder

\* One iteration of the loop.
ConvertDay ==
    /\ conv_pc = "day"
    /\ LET inp == input_file(station_name, conv_year, conv_doy)
           out == output_file(station_name, conv_year, conv_doy)
           cmd == [finp |-> inp, fout |-> out, vo |-> "2.11"]
       IN IF InputExists(conv_doy)
          THEN \E o \in ToolOutcomes :
                 /\ out_files' = IF o = "ok" THEN out_files \cup {out} ELSE out_files
                 /\ conv_log' = [conv_log EXCEPT
                        !.examined[conv_doy] = @ + 1,
                        !.tool[conv_doy] = @ + 1,
                        !.commands = Append(@, cmd),
                        !.result[conv_doy] =
                            CASE o = "ok" -> "PROCESSED"
                              [] ConvCaught(ToolException(o)) -> "TOOL_FAILED"
                              [] OTHER -> "RAISED",
                        !.error = IF o = "ok" \/ ConvCaught(ToolException(o))
                                  THEN @ ELSE ToolException(o)]
                 /\ IF o = "ok" \/ ConvCaught(ToolException(o))
                    THEN ConvNextDay(conv_doy)
                    ELSE conv_doy' = conv_doy /\ conv_pc' = "raised"
          ELSE /\ out_files' = out_files
               /\ conv_log' = [conv_log EXCEPT !.examined[conv_doy] = @ + 1,
                                               !.result[conv_doy] = "SKIPPED"]
               /\ ConvNextDay(conv_doy)
    /\ UNCHANGED <<conv_doy_start, conv_doy_end, station_name, conv_year,
                   gfzrnx_exists, output_folder, out_dir_exists, input_folder,
                   fvars, nvars, mvars>>

ConvNext ==
    \/ CheckExe
    \/ OutputFolder
    \/ ConvertDay

ConvSpecInit == FetchIdle /\ ConvInit /\ NameIdle /\ CliIdle

ConvSpec == ConvSpecInit /\ [][ConvNext]_vars

----------------------------------------------------------------------------
(* The file names of both programs. *)

\* Days of the year with one, two, three and four digits.
NameDoys == {0, 1, 9, 10, 50, 99, 100, 366, 999, 1000}

NameInit ==
    /\ n_pc = "input"
    /\ n_station \in Stations
    /\ n_year \in Years
    /\ n_doy \in NameDoys
    /\ n_names = NoNames

\* The names satref2rinex and rinex_convert compute in one iteration.
FormatNames ==
    /\ n_pc = "input"
    /\ n_pc' = "done"
    /\ n_names' = [gz  |-> gz_file_name(n_station, n_year, n_doy),
                   crx |-> rnx_file_name(n_station, n_year, n_doy),
                   rnx |-> rnx_converted_file_name(n_station, n_year, n_doy),
                   url |-> url(n_station, n_year, n_doy),
                   doy_formatted |-> Format03(n_doy),
                   input  |-> input_file(n_station, n_year, n_doy),
                   output |-> output_file(n_station, n_year, n_doy)]
    /\ UNCHANGED <<n_station, n_year, n_doy, fvars, cvars, mvars>>

NameNext == FormatNames

NameSpecInit == FetchIdle /\ ConvIdle /\ NameInit /\ CliIdle

NameSpec == NameSpecInit /\ [][NameNext]_vars

----------------------------------------------------------------------------
(* satref2rinex.py run from the command line *)

\* The characters of s after an optional sign.
Unsigned(s) == IF Len(s) > 0 /\ s[1] \in {"+", "-"} THEN SubSeq(s, 2, Len(s)) ELSE s

\* Whether int(s) returns: an optional sign and at least one decimal digit
\* (of the strings over signs, digits, letters and dots); else ValueError.
IsIntLiteral(s) ==
    /\ Len(Unsigned(s)) > 0
    /\ \A i \in 1..Len(Unsigned(s)) : IsDigit(Unsigned(s)[i])

\* int(s)
ParseInt(s) ==
    IF Len(s) > 0 /\ s[1] = "-" THEN 0 - DigitsToInt(Unsigned(s)) ELSE DigitsToInt(Unsigned(s))

ProgName == <<"s", "a", "t", "r", "e", "f", "2", "r", "i", "n", "e", "x", ".", "p", "y">>

YearArgs == {<<"2", "0", "2", "3">>, <<"2", "0", "x", "3">>}

StartArgs == {<<"1">>, <<"2">>, <<"1", ".", "5">>, <<>>}

EndArgs == {<<"1">>, <<"2">>, <<"0">>, <<"-", "1">>, <<"x">>}

\* Command lines with four, five and six arguments after the program name.
CliArgvs ==
    {SubSeq(<<ProgName, y, b, e, <<"H", "K", "S", "T">>, <<"o", "u", "t">>, <<"e", "x", "t", "r", "a">> >>, 1, n) :
        y \in YearArgs, b \in StartArgs, e \in EndArgs, n \in 5..7}

CliInit ==
    /\ pc = "main"
    /\ doy = 0
    /\ doy_start = 1
    /\ doy_end = 0
    /\ dirExists \in BOOLEAN
    /\ fs \in [Days -> [gz : {"none", "old"}, crx : {"none", "old"}, rnx : {"none", "old"}]]
    /\ (~dirExists => \A d \in Days : fs[d] = [gz |-> "none", crx |-> "none", rnx |-> "none"])
    /\ fs0 = fs
    /\ log = [d \in Days |-> NoLog]
    /\ \E a \in CliArgvs :
           cli = [argv |-> a, exit |-> "none", called |-> FALSE, dirAtStart |-> dirExists]

\* Faulty variant of ArgCountOk: only too few arguments are refused.
ArgCountOk_AtLeast(a) == Len(a) >= 6

\* len(sys.argv) != 6
ArgCountOk(a) == Len(a) = 6

\* The block under if __name__ == "__main__": up to the call of satref2rinex.
Main ==
    /\ pc = "main"
    /\ IF ~ArgCountOk(cli.argv)
       THEN /\ pc' = "exit"
            /\ cli' = [cli EXCEPT !.exit = 1]
            /\ UNCHANGED <<doy_start, doy_end>>
       ELSE IF ~(IsIntLiteral(cli.argv[2]) /\ IsIntLiteral(cli.argv[3])
                    /\ IsIntLiteral(cli.argv[4]))
            THEN /\ pc' = "exit"
                 /\ cli' = [cli EXCEPT !.exit = 1]
                 /\ UNCHANGED <<doy_start, doy_end>>
            ELSE /\ pc' = "start"
                 /\ cli' = [cli EXCEPT !.called = TRUE]
                 /\ doy_start' = ParseInt(cli.argv[3])
                 /\ doy_end' = ParseInt(cli.argv[4])
    /\ UNCHANGED <<doy, dirExists, fs, fs0, log, cvars, nvars>>

CliNext ==
    \/ Main
    \/ Mkdir
    \/ SkipCheck
    \/ Download
    \/ Gunzip
    \/ Codec
    \/ CleanupGate

CliSpecInit == CliInit /\ ConvIdle /\ NameIdle

CliSpec == CliSpecInit /\ [][CliNext]_vars

----------------------------------------------------------------------------
(* Properties of satref2rinex, checked under Spec. *)

Returned == pc = "done"

\* Total number of requests.get calls of the run.
RECURSIVE NetCallsUpTo(_)
NetCallsUpTo(d) == IF d = 0 THEN 0 ELSE log[d].net + NetCallsUpTo(d - 1)

NetCalls == NetCallsUpTo(MaxDoy)

\* (b) of the cleanup invariant: no final file, and every intermediate file
\* that was on disk, before the run or at the gate, is still on disk.
LeftUntouched(d) ==
    /\ ~Present(fs[d].rnx)
    /\ Present(fs0[d].gz) => Present(fs[d].gz)
    /\ Present(fs0[d].crx) => Present(fs[d].crx)
    /\ Present(log[d].atGate.gz) => Present(fs[d].gz)
    /\ Present(log[d].atGate.crx) => Present(fs[d].crx)

\* (a) of the cleanup invariant.
FinalAlone(d) ==
    /\ Present(fs[d].rnx)
    /\ ~Present(fs[d].gz)
    /\ ~Present(fs[d].crx)

AllFinalAtStart == \A d \in Range : Present(fs0[d].rnx)

\* C3 as stated: if every day of the range has its final file at the start,
\* the run makes no network request and the directory holds at the end
\* exactly the files it held at the start.
C3_Idempotence_AsStated ==
    (Returned /\ AllFinalAtStart) => NetCalls = 0 /\ fs = fs0

\* C3 as amended: if every day of the range has its final file at the start,
\* the run makes no network request, creates and overwrites no file and
\* leaves every final file; the only files it may remove are stale .crx.gz
\* and .crx files of the days of the range, and when no such file is there
\* at the start the directory is unchanged.
C3_Idempotence ==
    (Returned /\ AllFinalAtStart) =>
        /\ NetCalls = 0
        /\ \A d \in Days :
            /\ fs[d].rnx = fs0[d].rnx
            /\ fs[d].gz \in {fs0[d].gz, "none"}
            /\ fs[d].crx \in {fs0[d].crx, "none"}
            /\ d \notin Range => fs[d] = fs0[d]
        /\ (\A d \in Range : ~Present(fs0[d].gz) /\ ~Present(fs0[d].crx)) => fs = fs0

\* A run over two days or more that all had their final file, one of them
\* with a stale .crx.gz file that the run removed.
C3_Witness ==
    /\ Returned
    /\ AllFinalAtStart
    /\ Cardinality(Range) >= 2
    /\ \A d \in Range : log[d].status = "SKIPPED"
    /\ \E d \in Range : fs0[d].gz = "old" /\ fs[d].gz = "none"

\* C4: a day whose final file exists when the day begins makes no network
\* request, no gunzip and no codec call.
C4_SkipNoWork ==
    \A d \in Days :
        (log[d].began > 0 /\ Present(log[d].atStart.rnx)) =>
            log[d].net = 0 /\ log[d].gunzip = 0 /\ log[d].codec = 0

\* A day that had its final file was begun and has passed its gate.
C4_Witness ==
    \E d \in Range :
        /\ Present(fs0[d].rnx)
        /\ log[d].began = 1
        /\ log[d].gate = 1
        /\ log[d].order = <<"check", "gate">>

IsPrefix(s, t) == Len(s) <= Len(t) /\ SubSeq(t, 1, Len(s)) = s

\* The day d of the range is over: the loop has gone past it.
DayOver(d) == d \in Range /\ (pc = "done" \/ (pc \notin {"start", "main", "exit"} /\ d < doy))

\* C13: within a day the stages run in the order skip check, download,
\* gunzip, codec, cleanup gate; a stage runs only if every earlier stage of
\* the day completed without error; each stage runs at most once per day;
\* and the gate runs exactly once per day, last, after success and failure.
C13_StageOrder ==
    \A d \in Days :
        /\ \/ IsPrefix(log[d].order, <<"check", "download", "gunzip", "codec", "gate">>)
           \/ log[d].order = <<"check", "download", "gunzip", "gate">> /\ log[d].failed = "gunzip"
           \/ log[d].order = <<"check", "download", "gate">> /\ log[d].failed = "download"
           \/ log[d].order = <<"check", "gate">> /\ log[d].status = "SKIPPED"
        /\ log[d].began <= 1 /\ log[d].net <= 1 /\ log[d].gunzip <= 1
        /\ log[d].codec <= 1 /\ log[d].gate <= 1
        /\ log[d].gunzip > 0 => log[d].net = 1 /\ log[d].failed # "download"
        /\ log[d].codec > 0 => log[d].gunzip = 1 /\ log[d].failed \notin {"download", "gunzip"}
        /\ log[d].net > 0 => log[d].began = 1 /\ log[d].status # "SKIPPED"
        /\ DayOver(d) =>
               /\ log[d].gate = 1
               /\ log[d].order[Len(log[d].order)] = "gate"
               /\ log[d].order[1] = "check"
        /\ d \notin Range => log[d].order = <<>>

\* A run in which one day went through the five stages and another day went
\* from a failed download to the gate.
C13_Witness ==
    /\ Returned
    /\ \E d1, d2 \in Range :
        /\ log[d1].order = <<"check", "download", "gunzip", "codec", "gate">>
        /\ log[d2].order = <<"check", "download", "gate">>

\* The three paths of day d in the output directory.
PathsOf(st, y, d) ==
    {gz_file_name(st, y, d), rnx_file_name(st, y, d), rnx_converted_file_name(st, y, d)}

\* Two distinct days share a path, for some station and year.
Clash(d1, d2) ==
    /\ d1 # d2
    /\ \E st \in Stations : \E y \in Years :
           PathsOf(st, y, d1) \cap PathsOf(st, y, d2) # {}

\* The pairs of distinct days that share a path.
SharedPath ==
    UNION {IF Clash(d1, d2) THEN {<<d1, d2>>} ELSE {} :
               d1 \in Days \cup NameDoys, d2 \in Days \cup NameDoys}

\* The positions of satref2rinex in which it works on the day doy.
DayStages == {"check", "download", "gunzip", "codec", "gate"}

\* C15: the three paths of the day being processed are paths of no other
\* day, and a step that works on day doy creates, overwrites or removes
\* files of that day only: the files of every other day stay as they are.
C15_CrossDayFrame ==
    [][/\ pc = "start" => fs' = fs
       /\ pc \in DayStages =>
              /\ \A d \in (Days \cup NameDoys) \ {doy} : <<doy, d>> \notin SharedPath
              /\ \A d \in Days \ {doy} : fs'[d] = fs[d]]_vars

\* The first day of the range is over and has changed its files; the next
\* day, not yet begun, has the three files it had at the start.
C15_Witness ==
    /\ pc = "check"
    /\ doy - 1 \in Range
    /\ fs[doy - 1] # fs0[doy - 1]
    /\ fs0[doy] = [gz |-> "old", crx |-> "old", rnx |-> "old"]
    /\ fs[doy] = fs0[doy]

\* C17: once the final .rnx file of a day exists no step removes or rewrites
\* it, in this call or in a later one (to which it is an old file), and the
\* only removals ever attempted are those of .crx.gz and .crx files.
C17_FinalStable ==
    [][\A d \in Days :
           /\ Present(fs[d].rnx) =>
                  \/ fs'[d].rnx = fs[d].rnx
                  \/ pc = "done" /\ fs'[d].rnx = "old"
           /\ log'[d].delTried \subseteq {"gz", "crx"}]_vars

\* The call has returned; it made the final file of one day, and on a later
\* day it found an old final file with both intermediate files, skipped the
\* day and removed the two: the old final file is as it was.
C17_Witness ==
    /\ Returned
    /\ \E d1, d2 \in Range :
           /\ d1 < d2
           /\ fs0[d1].rnx = "none" /\ fs[d1].rnx = "new"
           /\ fs0[d2] = [gz |-> "old", crx |-> "old", rnx |-> "old"]
           /\ log[d2].status = "SKIPPED"
           /\ fs[d2] = [gz |-> "none", crx |-> "none", rnx |-> "old"]

\* C18: a day that begins without its final file, whatever .crx.gz and .crx
\* files an earlier call left, is taken from the download stage; and if its
\* download, gunzip and codec succeed and no removal fails, it ends with the
\* new final file alone, as a day that began with no file at all does.
C18_RecoveryByRerun ==
    \A d \in Days :
        (log[d].gate = 1 /\ ~Present(log[d].atStart.rnx)) =>
            /\ IsPrefix(<<"check", "download">>, log[d].order)
            /\ log[d].net = 1
            /\ (log[d].failed = "none" /\ log[d].delFail = {}) =>
                   /\ log[d].order = <<"check", "download", "gunzip", "codec", "gate">>
                   /\ log[d].status = "CLEANED"
                   /\ fs[d] = [gz |-> "none", crx |-> "none", rnx |-> "new"]

\* A day that began with both stale intermediate files and no final file has
\* ended with the new final file alone.
C18_Witness ==
    \E d \in Range :
        /\ log[d].gate = 1
        /\ log[d].atStart = [gz |-> "old", crx |-> "old", rnx |-> "none"]
        /\ log[d].status = "CLEANED"
        /\ fs[d] = [gz |-> "none", crx |-> "none", rnx |-> "new"]

\* C19: a day that is skipped because its final file exists still passes the
\* cleanup gate, straight after the check; and if its .crx.gz and .crx files
\* are both on disk there and no removal fails, both are removed.
C19_SkipPassesGate ==
    \A d \in Days :
        (log[d].status = "SKIPPED" /\ DayOver(d)) =>
            /\ log[d].gate = 1
            /\ log[d].order = <<"check", "gate">>
            /\ (/\ Present(log[d].atGate.gz)
                /\ Present(log[d].atGate.crx)
                /\ log[d].delFail = {}) =>
                   /\ log[d].delTried = {"gz", "crx"}
                   /\ fs[d] = [log[d].atGate EXCEPT !.gz = "none", !.crx = "none"]

\* A skipped day that had both stale intermediate files is over, and the two
\* are gone.
C19_Witness ==
    \E d \in Range :
        /\ log[d].status = "SKIPPED"
        /\ DayOver(d)
        /\ log[d].atGate = [gz |-> "old", crx |-> "old", rnx |-> "old"]
        /\ fs[d] = [gz |-> "none", crx |-> "none", rnx |-> "old"]

\* C14 as stated: whenever the final file exists at a day's gate, the removal
\* of the .crx.gz file and the removal of the .crx file are both attempted; a
\* failure of either (the file being absent included) does not prevent the
\* attempt on the other and does not end the batch.
C14_BestEffortCleanup_AsStated ==
    /\ pc # "raised"
    /\ \A d \in Days :
           (log[d].gate > 0 /\ Present(log[d].atGate.rnx)) =>
               log[d].delTried = {"gz", "crx"}

----------------------------------------------------------------------------
(* Properties of rinex_convert, checked under ConvSpec. *)

ConvRange == {d \in Days : conv_doy_start <= d /\ d <= conv_doy_end}

InputAbsent(d) == input_file(station_name, conv_year, d) \notin input_folder

\* C5: for a day whose input file is absent rinex_convert never runs the
\* tool, raises no error, writes no output file, and goes on to the next
\* day (or returns after the last day).
C5_SkipAbsentInput ==
    \A d \in Days : InputAbsent(d) =>
        /\ conv_log.tool[d] = 0
        /\ \A i \in 1..Len(conv_log.commands) :
               conv_log.commands[i].finp # input_file(station_name, conv_year, d)
        /\ output_file(station_name, conv_year, d) \notin out_files
        /\ conv_log.result[d] \in {"PENDING", "SKIPPED"}
        /\ conv_log.examined[d] > 0 =>
            /\ conv_log.result[d] = "SKIPPED"
            /\ \/ conv_pc = "day" /\ conv_doy = d + 1
               \/ conv_pc = "done" /\ d = conv_doy_end
               \/ conv_doy > d

\* A day without input file was examined, and the tool was then run for the
\* next day, whose input file exists.
C5_Witness ==
    \E d \in ConvRange :
        /\ d + 1 \in ConvRange
        /\ InputAbsent(d)
        /\ conv_log.examined[d] = 1
        /\ conv_log.tool[d + 1] = 1
        /\ conv_log.result[d + 1] = "PROCESSED"

\* C6 as stated: no error of the tool invocation for a day (a non-zero exit
\* or any other error raised while invoking the tool) ends the batch: the
\* only error rinex_convert raises is the missing executable, and when the
\* executable exists the run returns after running the tool for every day of
\* the range whose input file exists.
C6_PerDayErrorIsolation_AsStated ==
    /\ conv_pc = "raised" => conv_log.error = "FileNotFoundError" /\ ~gfzrnx_exists
    /\ \A d \in ConvRange :
           (gfzrnx_exists /\ conv_doy > d /\ ~InputAbsent(d)) => conv_log.tool[d] = 1
    /\ conv_pc = "done" =>
           \A d \in ConvRange : ~InputAbsent(d) => conv_log.tool[d] = 1

\* C16 as stated, for rinex_convert: once the executable has been found, when
\* the batch has ended every day of the range has been handled exactly once
\* and no other day has been handled.
C16_RangeIteration_AsStated ==
    (gfzrnx_exists /\ conv_pc \in {"done", "raised"}) =>
        \A d \in Days :
            conv_log.examined[d] = IF d \in ConvRange THEN 1 ELSE 0

\* C7: if the executable does not exist rinex_convert raises FileNotFoundError
\* before any side effect: no day is examined, the tool is never run, the
\* output directory is not created; and the existence check is made once.
C7_PreflightFailure ==
    /\ conv_log.exeChecks = IF conv_pc = "start" THEN 0 ELSE 1
    /\ (~gfzrnx_exists /\ conv_pc # "start") =>
        /\ conv_pc = "raised"
        /\ conv_log.error = "FileNotFoundError"
        /\ \A d \in Days : conv_log.examined[d] = 0 /\ conv_log.tool[d] = 0
        /\ conv_log.commands = <<>>
        /\ conv_log.mkdirs = 0
        /\ out_dir_exists = conv_log.dirAtStart
        /\ out_files = {}

\* The executable is missing, an output directory that does not exist was
\* given, the first day's input file exists, and rinex_convert has raised.
C7_Witness ==
    /\ conv_pc = "raised"
    /\ ~gfzrnx_exists
    /\ output_folder = "given"
    /\ ~out_dir_exists
    /\ conv_doy_start \in ConvRange
    /\ ~InputAbsent(conv_doy_start)

\* The legacy output name with a short year of exactly two digits.
LegacyName(st, y, d) ==
    Lower(st) \o Format03(d) \o <<"0", ".">> \o ZeroPad(IntToStr(y % 100), 2) \o <<"o">>

\* C9 as stated: for every year the output file the tool is run with is
\* {station_lower}{doy}0.{yy}o with yy the two decimal digits of year % 100.
C9_ShortYear_AsStated ==
    \A i \in 1..Len(conv_log.commands) :
        \E d \in Days :
            /\ conv_log.commands[i].finp = input_file(station_name, conv_year, d)
            /\ conv_log.commands[i].fout = LegacyName(station_name, conv_year, d)

----------------------------------------------------------------------------
(* Properties of the file names, checked under NameSpec. *)

\* C10 as stated: for every station identifier in any letter case, every year
\* and every day, the input file name rinex_convert looks for equals the name
\* of the final file satref2rinex produces.
C10_RoundTrip_AsStated ==
    n_pc = "done" => n_names.input = n_names.rnx

\* Where the day starts in a file name that begins with the station.
DoyOffset == Len(n_station) + Len(StemA) + Len(IntToStr(n_year))

\* C11: for 0 <= doy <= 999 the day string of both programs has length 3,
\* holds decimal digits only, is left-padded with zeros and denotes doy, so
\* distinct days give distinct strings; it is the string that stands in the
\* file names of both programs and, twice, in the URL.
C11_DoyFormat ==
    /\ \A d \in 0..999 :
        LET s == Format03(d)
        IN /\ Len(s) = 3
           /\ \A i \in 1..3 : IsDigit(s[i])
           /\ DigitsToInt(s) = d
           /\ d < 100 => s[1] = "0"
           /\ d < 10 => s[2] = "0"
    /\ \A d1, d2 \in {d \in NameDoys : d <= 999} :
           d1 # d2 => Format03(d1) # Format03(d2)
    /\ (n_pc = "done" /\ n_doy <= 999) =>
        LET s == n_names.doy_formatted
            k == DoyOffset
            u == Len(UrlBase) + Len(IntToStr(n_year)) + 1
            v == u + 3 + 1 + Len(n_station) + Len(Url30s) + DoyOffset
        IN /\ Len(s) = 3
           /\ DigitsToInt(s) = n_doy
           /\ SubSeq(n_names.gz, k + 1, k + 3) = s
           /\ SubSeq(n_names.crx, k + 1, k + 3) = s
           /\ SubSeq(n_names.rnx, k + 1, k + 3) = s
           /\ SubSeq(n_names.input, k + 1, k + 3) = s
           /\ SubSeq(n_names.output, Len(n_station) + 1, Len(n_station) + 3) = s
           /\ SubSeq(n_names.url, u + 1, u + 3) = s
           /\ SubSeq(n_names.url, v + 1, v + 3) = s

\* The names of day 9 were computed: the day string is 009.
C11_Witness ==
    /\ n_pc = "done"
    /\ n_doy = 9
    /\ n_names.doy_formatted = <<"0", "0", "9">>

----------------------------------------------------------------------------
(* Properties of the command line of satref2rinex.py, checked under CliSpec. *)

\* The number of arguments is not 5, or year, doy_start or doy_end is no integer.
BadArgs ==
    \/ Len(cli.argv) # 6
    \/ \E i \in {2, 3, 4} : i <= Len(cli.argv) /\ ~IsIntLiteral(cli.argv[i])

\* C12: with a wrong number of arguments or a year, doy_start or doy_end
\* that is no integer the program exits with status 1 before satref2rinex is
\* called: no output directory is created, no day is processed, no network
\* request is made.
C12_CliPreflight ==
    (BadArgs /\ pc # "main") =>
        /\ pc = "exit"
        /\ cli.exit = 1
        /\ ~cli.called
        /\ dirExists = cli.dirAtStart
        /\ fs = fs0
        /\ \A d \in Days : log[d] = NoLog

\* Five arguments with a doy_start that is no integer, no output directory:
\* the program has exited.
C12_Witness ==
    /\ pc = "exit"
    /\ Len(cli.argv) = 6
    /\ IsIntLiteral(cli.argv[2])
    /\ ~IsIntLiteral(cli.argv[3])
    /\ ~dirExists

====
